---- MODULE Spec2Model ----
(***************************************************************************)
(* A model of the scheduler benchmark's run orchestrator (experiment.py),  *)
(* its sampling thread (state.py) and its trace metrics engine (parse.py). *)
(*                                                                         *)
(* Two specifications share the module:                                    *)
(*   Spec       one call of experiment(): the orchestrator, the sampling   *)
(*              thread, the workload process and the policy-under-test     *)
(*              process, interleaved;                                      *)
(*   SpecParse  one call of parse_and_calculate_worker_metrics(): the      *)
(*              line loop, one trace line per step, then the averages.     *)
(*                                                                         *)
(* Timestamps are whole ticks; float arithmetic on them is exact integer   *)
(* arithmetic, except float('inf') and float('-inf'), which are modelled   *)
(* by the extended values PosInf and NegInf.                               *)
(***************************************************************************)
EXTENDS Integers, Sequences, FiniteSets, TLC

----------------------------------------------------------------------------
(* Bounds of the model *)

MaxDuration == 2     \* duration of a run request is 0..MaxDuration
MaxInterval == 2     \* sampling interval of a run request is 0..MaxInterval
MaxTicks == 3        \* ticks the sampling thread takes in one run
MaxPid == 2          \* process ids of a trace are 1..MaxPid
MaxTime == 2         \* timestamps of a trace are 0..MaxTime
MaxLines == 3        \* lines of a trace file
MaxValue == 1        \* metric values and per-process counters are 0..MaxValue
MaxRuns == 2         \* requests the server receives
MaxProcs == 2        \* processes psutil.process_iter() yields in a tick
MaxCalls == 3        \* start_monitoring/stop_monitoring calls on one builder

(* server.py 10: ThreadPoolExecutor(max_workers=4) *)
max_workers == 4

(* Program constants *)

ParseRequiredArgs == 2     \* positional parameters without a default
ExperimentParseArgs == 1   \* arguments experiment() passes

----------------------------------------------------------------------------
VARIABLES
    \* --- experiment(): inputs
    scheduler,       \* the scheduler argument
    duration,        \* the duration argument
    interval,        \* the interval argument
    \* --- experiment(): orchestrator
    pc,              \* position of the orchestrator in experiment()
    pending,         \* exception in flight ("none" or its kind)
    raisedAt,        \* the step that raised ("none" if none did)
    results,         \* the results dict, as its set of keys
    metrics,         \* the metrics dict, as its set of keys
    retval,          \* what experiment() returned (set of keys), "unset" before
    traceRendered,   \* perf script has written the trace log
    \* --- processes
    scx,             \* policy-under-test process: none | running | gone
    signals,         \* os.kill calls made on the policy-under-test process
    waitTimedOut,    \* scx_process.wait(timeout=5) raised TimeoutExpired
    lookupErrors,    \* os.kill raised ProcessLookupError
    stress,          \* workload process: none | running | zombie | reaped
    \* --- RLStateBuilder
    buffer_size,     \* deque maxlen (-1 before construction)
    raw_buffer,      \* the sliding window
    stop_event,      \* threading.Event
    thread,          \* sampling thread: none | check | collect | sleep | done
    ticks,           \* snapshots taken so far (the snapshot's identity)
    \* --- parse_and_calculate_worker_metrics()
    fileExists,      \* the trace log exists at log_file_path
    ppc,             \* position: open | loop | calculate | returned | raised
    worker_data,     \* pid -> lifecycle record
    experiment_start_time,
    experiment_end_time,
    nlines,          \* lines read so far
    line,            \* the line read last
    result,          \* the returned dict
    trace,           \* the lines of the trace log where they are fixed before
                     \* the call (SpecTrace); << >> where they are drawn as read
    \* --- RLStateBuilder.build_state() / build_flat_state() on their own
    samples,         \* list(self.raw_buffer): the snapshots, with their values
    state,           \* what build_state() returned
    flat_state,      \* what build_flat_state() returned
    bpc,             \* position: idle | build_state | flatten | returned
    \* --- server.py: the runs of the pool, each field indexed by the run
    rpc,             \* position of the run's experiment() call
    tpc,             \* the run's sampling thread: none | running | done
    raw_buffers,     \* call frame -> window of the builder constructed there
    stop_events,     \* call frame -> the builder's stop event
    nticks,          \* snapshots the run's thread has taken
    run_metrics,     \* what the run's build_flat_state() read
    run_results,     \* call frame -> the results dict, as ("unset" or) its keys
    \* --- RLStateBuilder.collect_raw() on its own: the context-switch totals
    procs,           \* what process_iter() yields: counters and when it ends
    nproc,           \* processes the loop has been through
    T_vcsw_total,
    T_nvcsw_total,
    cpc,             \* position: idle | loop | snapshot | done
    collected,       \* the window: the totals of each snapshot appended
    \* --- one RLStateBuilder under any sequence of start/stop calls
    mpc,             \* the caller: idle (between calls) | join (in stop_monitoring)
    ncalls,          \* calls made so far
    mon_stop_event,  \* self._stop_event
    mon_thread,      \* self._thread: 0 for None, or the thread's number
    threads,         \* thread number -> unborn | check | collect | sleep | done
    mon_buffer,      \* self.raw_buffer; a snapshot is <<thread, serial number>>
    mon_ticks,       \* snapshots taken so far
    mon_pid          \* psutil.pid_exists(self.pid)

runVars == <<scheduler, duration, interval, pc, pending, raisedAt, results,
             metrics, retval, traceRendered, scx, signals, waitTimedOut,
             lookupErrors, stress, buffer_size, raw_buffer, stop_event,
             thread, ticks>>

parseVars == <<fileExists, ppc, worker_data, experiment_start_time,
               experiment_end_time, nlines, line, result, trace>>

stateVars == <<samples, state, flat_state, bpc>>

(* What a step of experiment() leaves alone, and what a step of the parser *)
(* leaves alone, besides the variables of their own they do not assign.    *)
poolVars == <<rpc, tpc, raw_buffers, stop_events, nticks, run_metrics,
              run_results>>

collectVars == <<procs, nproc, T_vcsw_total, T_nvcsw_total, cpc, collected>>

monVars == <<mpc, ncalls, mon_stop_event, mon_thread, threads, mon_buffer,
             mon_ticks, mon_pid>>

notRunVars == <<parseVars, stateVars, poolVars, collectVars, monVars>>

notParseVars == <<runVars, stateVars, poolVars, collectVars, monVars>>

notStateVars == <<runVars, parseVars, poolVars, collectVars, monVars>>

notPoolVars == <<runVars, parseVars, stateVars, collectVars, monVars>>

notCollectVars == <<runVars, parseVars, stateVars, poolVars, monVars>>

notMonVars == <<runVars, parseVars, stateVars, poolVars, collectVars>>

vars == <<runVars, parseVars, stateVars, poolVars, collectVars, monVars>>

----------------------------------------------------------------------------
(* experiment.py: data *)

schedulers == {"bpfland", "fifo"}

Schedulers == schedulers \cup {"CFS"}

Durations == 0..MaxDuration

Intervals == 0..MaxInterval

(* Exceptions a step of the try body can raise: subclasses of Exception,   *)
(* and the others (KeyboardInterrupt, SystemExit).                         *)
ExceptionKinds == {"Exception", "BaseException"}

(* Dict keys are pairs <<field, suffix>>: <<m, k>> is the key f"{m}_{k}",  *)
(* and <<name, "">> the key name.                                          *)
Key(name) == <<name, "">>

ConfigKeys == {Key("exp_id"), Key("scheduler"), Key("cpu"), Key("io"),
               Key("mem_load")}

SummaryKeys == {Key("Average_TAT"), Key("Average_RT"), Key("CV_Fairness"),
                Key("Total_Experiment_Duration")}

----------------------------------------------------------------------------
(* state.py: RLStateBuilder *)

avg_metrics == {"T_cpu_percent", "T_iowait_percent", "T_irq_percent",
                "T_softirq_percent", "T_run_queue", "T_active_threads",
                "T_blocked_threads", "T_io_blocked_threads", "T_mem_used",
                "T_mem_available", "T_swap_used", "T_cache_mem",
                "T_buffers_mem"}

total_metrics == {"T_swap_in_total", "T_swap_out_total", "T_io_read_total",
                  "T_io_write_total", "T_nvcsw_total", "T_vcsw_total"}

(* deque(maxlen=n).append(x): the oldest entry is dropped on overflow, and *)
(* a deque of maxlen 0 stays empty.                                        *)
DequeAppendKeepOldest(buf, maxlen, x) ==
    IF Len(buf) < maxlen THEN Append(buf, x) ELSE buf

deque_append(buf, maxlen, x) ==
    IF maxlen = 0 THEN << >>
    ELSE IF Len(buf) < maxlen THEN Append(buf, x)
    ELSE Append(Tail(buf), x)

(* The keys of build_state()'s dict, per metric; {} stands for None.       *)
build_state_keys(buf) ==
    IF Len(buf) = 0 THEN {}
    ELSE {<<m, k>> : m \in avg_metrics, k \in {"avg", "delta", "pct_change"}}
         \cup {<<m, k>> : m \in total_metrics, k \in {"delta", "pct_change"}}

build_flat_state(buf) == build_state_keys(buf)

pid_exists(proc) == proc \in {"running", "zombie"}

(* stop_monitoring's join: returns once the thread has ended.              *)
JoinNoWait(th) == TRUE

join_returns(th) == th \in {"none", "done"}

----------------------------------------------------------------------------
(* experiment.py: exception flow of experiment() *)

(* except Exception as e: catches subclasses of Exception only.            *)
Caught(kind) == kind = "Exception"

(* return results is inside the finally block: an exception in flight is   *)
(* discarded by it.                                                        *)
ReturnAfterFinally(inflight) == inflight

return_in_finally(inflight) == "none"

(* The cleanup sits in the finally block: it runs whether or not the body  *)
(* raised.                                                                 *)
TeardownOnSuccessOnly(sched, bodyRaised) == sched # "CFS" /\ ~bodyRaised

teardown_runs(sched, bodyRaised) == sched # "CFS"

(* except ProcessLookupError: pass                                         *)
LookupErrorPropagates == "raise"

on_ProcessLookupError == "pass"

(* parse_and_calculate_worker_metrics(output) against the signature        *)
(* (log_file_path, workload_root_pid): a missing positional argument is a  *)
(* TypeError at the call.                                                  *)
parse_call_ok(nargs) == nargs = ParseRequiredArgs

(* Steps of the try body that call into the operating system or block.     *)
RaisingSteps == {"start_stressor", "wait", "stop_join", "communicate",
                 "perf_script", "remove_input"}

----------------------------------------------------------------------------
(* Spec: one call of experiment() *)

RunInit ==
    /\ scheduler \in Schedulers
    /\ duration \in Durations
    /\ interval \in Intervals
    /\ pc = "popen_scx"
    /\ pending = "none"
    /\ raisedAt = "none"
    /\ results = {}
    /\ metrics = {}
    /\ retval = {Key("unset")}
    /\ traceRendered = FALSE
    /\ scx = "none"
    /\ signals = << >>
    /\ waitTimedOut = FALSE
    /\ lookupErrors = 0
    /\ stress = "none"
    /\ buffer_size = -1
    /\ raw_buffer = << >>
    /\ stop_event = FALSE
    /\ thread = "none"
    /\ ticks = 0

procVars == <<scx, signals, waitTimedOut, lookupErrors, stress>>
builderVars == <<buffer_size, raw_buffer, stop_event, thread, ticks>>
inputVars == <<scheduler, duration, interval>>
dictVars == <<results, metrics, retval, traceRendered>>

(* Lines 22-23, before the try: Popen of the policy-under-test.  A failure *)
(* here (unknown binary) leaves experiment() as an exception.              *)
popen_scx ==
    /\ pc = "popen_scx"
    /\ UNCHANGED notRunVars
    /\ \/ /\ scheduler = "CFS"
          /\ pc' = "start_stressor"
          /\ UNCHANGED <<scx, pending, raisedAt>>
       \/ /\ scheduler # "CFS"
          /\ scx' = "running"
          /\ pc' = "start_stressor"
          /\ UNCHANGED <<pending, raisedAt>>
       \/ /\ scheduler # "CFS"
          /\ pending' = "Exception"
          /\ raisedAt' = "popen_scx"
          /\ pc' = "raised"
          /\ UNCHANGED scx
    /\ UNCHANGED <<inputVars, dictVars, signals, waitTimedOut,
                   lookupErrors, stress, builderVars>>

(* A step of the try body raises: line 65 catches it or not, and control   *)
(* goes to the finally block either way.                                   *)
body_raises ==
    /\ pc \in RaisingSteps
    /\ UNCHANGED notRunVars
    /\ \E kind \in ExceptionKinds :
          pending' = IF Caught(kind) THEN "none" ELSE kind
    /\ raisedAt' = pc
    /\ pc' = "finally"
    /\ UNCHANGED <<inputVars, dictVars, procVars, builderVars>>

(* Line 26: start_stressor() starts the workload under perf record.        *)
start_stressor ==
    /\ pc = "start_stressor"
    /\ UNCHANGED notRunVars
    /\ stress' = "running"
    /\ pc' = "RLStateBuilder"
    /\ UNCHANGED <<inputVars, pending, raisedAt, dictVars, scx, signals,
                   waitTimedOut, lookupErrors, builderVars>>

(* Line 28: RLStateBuilder.__init__; duration // interval raises           *)
(* ZeroDivisionError for interval 0.                                       *)
RLStateBuilder_init ==
    /\ pc = "RLStateBuilder"
    /\ UNCHANGED notRunVars
    /\ IF interval = 0
       THEN /\ pending' = IF Caught("Exception") THEN "none" ELSE "Exception"
            /\ raisedAt' = pc
            /\ pc' = "finally"
            /\ UNCHANGED builderVars
       ELSE /\ buffer_size' = duration \div interval
            /\ raw_buffer' = << >>
            /\ stop_event' = FALSE
            /\ thread' = "none"
            /\ pc' = "start_monitoring"
            /\ UNCHANGED <<pending, raisedAt, ticks>>
    /\ UNCHANGED <<inputVars, dictVars, procVars>>

(* Line 29: start_monitoring() clears the event and starts the thread.     *)
start_monitoring ==
    /\ pc = "start_monitoring"
    /\ UNCHANGED notRunVars
    /\ stop_event' = FALSE
    /\ thread' = "check"
    /\ pc' = "wait"
    /\ UNCHANGED <<inputVars, pending, raisedAt, dictVars, procVars,
                   buffer_size, raw_buffer, ticks>>

(* Line 32: stress_proc.wait() returns once the workload has exited, and   *)
(* reaps it.                                                               *)
stress_wait ==
    /\ pc = "wait"
    /\ UNCHANGED notRunVars
    /\ stress = "zombie"
    /\ stress' = "reaped"
    /\ pc' = "stop_set"
    /\ UNCHANGED <<inputVars, pending, raisedAt, dictVars, scx, signals,
                   waitTimedOut, lookupErrors, builderVars>>

(* Line 33, state.py 165: stop_monitoring() sets the stop event ...        *)
StopMonitoringClears ==
    /\ pc = "stop_set"
    /\ UNCHANGED notRunVars
    /\ stop_event' = TRUE
    /\ raw_buffer' = << >>
    /\ pc' = "stop_join"
    /\ UNCHANGED <<inputVars, pending, raisedAt, dictVars, procVars,
                   buffer_size, thread, ticks>>

stop_monitoring_set ==
    /\ pc = "stop_set"
    /\ UNCHANGED notRunVars
    /\ stop_event' = TRUE
    /\ pc' = "stop_join"
    /\ UNCHANGED <<inputVars, pending, raisedAt, dictVars, procVars,
                   buffer_size, raw_buffer, thread, ticks>>

(* ... state.py 166-167: and joins the thread.                             *)
stop_monitoring_join ==
    /\ pc = "stop_join"
    /\ UNCHANGED notRunVars
    /\ join_returns(thread)
    /\ pc' = "communicate"
    /\ UNCHANGED <<inputVars, pending, raisedAt, dictVars, procVars,
                   builderVars>>

(* Lines 35-39: collect the workload's output.                             *)
communicate ==
    /\ pc = "communicate"
    /\ UNCHANGED notRunVars
    /\ pc' = "perf_script"
    /\ UNCHANGED <<inputVars, pending, raisedAt, dictVars, procVars,
                   builderVars>>

(* Lines 41-43: perf script renders the trace; subprocess.run returns      *)
(* whether or not the command succeeded.                                   *)
perf_script ==
    /\ pc = "perf_script"
    /\ UNCHANGED notRunVars
    /\ traceRendered' \in BOOLEAN
    /\ pc' = "remove_input"
    /\ UNCHANGED <<inputVars, pending, raisedAt, results, metrics, retval,
                   procVars, builderVars>>

(* Line 44: os.remove(input).                                              *)
remove_input ==
    /\ pc = "remove_input"
    /\ UNCHANGED notRunVars
    /\ pc' = "build_flat_state"
    /\ UNCHANGED <<inputVars, pending, raisedAt, dictVars, procVars,
                   builderVars>>

(* Line 45: the orchestrator reads the window.                             *)
read_window ==
    /\ pc = "build_flat_state"
    /\ UNCHANGED notRunVars
    /\ metrics' = build_flat_state(raw_buffer)
    /\ pc' = "parse"
    /\ UNCHANGED <<inputVars, pending, raisedAt, results, retval,
                   traceRendered, procVars, builderVars>>

(* Lines 47-64: the call of the parser, and on its return the result row.  *)
(* The call raises TypeError when its arguments do not fit the signature;  *)
(* line 65 catches it and results stays {}.                                *)
parse_and_row ==
    /\ pc = "parse"
    /\ UNCHANGED notRunVars
    /\ IF parse_call_ok(ExperimentParseArgs)
       THEN /\ results' = ConfigKeys \cup metrics \cup SummaryKeys
            /\ UNCHANGED <<pending, raisedAt>>
       ELSE /\ pending' = IF Caught("Exception") THEN "none" ELSE "Exception"
            /\ raisedAt' = pc
            /\ UNCHANGED results
    /\ pc' = "finally"
    /\ UNCHANGED <<inputVars, metrics, retval, traceRendered,
                   procVars, builderVars>>

(* Lines 67-68: the finally block.                                         *)
finally_block ==
    /\ pc = "finally"
    /\ UNCHANGED notRunVars
    /\ pc' = IF teardown_runs(scheduler, raisedAt # "none")
             THEN "sigterm"
             ELSE "return"
    /\ UNCHANGED <<inputVars, pending, raisedAt, dictVars, procVars,
                   builderVars>>

(* Line 70: os.kill(pid, SIGTERM).  On a process that is gone the call     *)
(* succeeds (not yet reaped) or raises ProcessLookupError.                 *)
kill_sigterm ==
    /\ pc = "sigterm"
    /\ UNCHANGED notRunVars
    /\ signals' = Append(signals, "SIGTERM")
    /\ \/ /\ pc' = "scx_wait"
          /\ UNCHANGED <<lookupErrors, pending>>
       \/ /\ scx = "gone"
          /\ lookupErrors' = lookupErrors + 1
          /\ IF on_ProcessLookupError = "pass"
             THEN pc' = "return" /\ UNCHANGED pending
             ELSE pc' = "raised" /\ pending' = "Exception"
    /\ UNCHANGED <<inputVars, raisedAt, dictVars, scx, waitTimedOut, stress,
                   builderVars>>

(* Line 72: scx_process.wait(timeout=5) returns if the process has exited  *)
(* and raises TimeoutExpired (line 76) if it still runs.                   *)
scx_wait ==
    /\ pc = "scx_wait"
    /\ UNCHANGED notRunVars
    /\ \/ /\ scx = "gone"
          /\ pc' = "return"
          /\ UNCHANGED waitTimedOut
       \/ /\ scx = "running"
          /\ waitTimedOut' = TRUE
          /\ pc' = "sigkill"
    /\ UNCHANGED <<inputVars, pending, raisedAt, dictVars, scx, signals,
                   lookupErrors, stress, builderVars>>

(* Lines 79-82: os.kill(pid, SIGKILL), ProcessLookupError passed over.     *)
kill_sigkill ==
    /\ pc = "sigkill"
    /\ UNCHANGED notRunVars
    /\ signals' = Append(signals, "SIGKILL")
    /\ \/ /\ scx' = "gone"
          /\ pc' = "return"
          /\ UNCHANGED <<lookupErrors, pending>>
       \/ /\ scx = "gone"
          /\ lookupErrors' = lookupErrors + 1
          /\ IF on_ProcessLookupError = "pass"
             THEN pc' = "return" /\ UNCHANGED pending
             ELSE pc' = "raised" /\ pending' = "Exception"
          /\ UNCHANGED scx
    /\ UNCHANGED <<inputVars, raisedAt, dictVars, waitTimedOut, stress,
                   builderVars>>

(* Line 83: return results, inside the finally block.                      *)
return_results ==
    /\ pc = "return"
    /\ UNCHANGED notRunVars
    /\ retval' = results
    /\ pending' = return_in_finally(pending)
    /\ pc' = IF pending' = "none" THEN "returned" ELSE "raised"
    /\ UNCHANGED <<inputVars, raisedAt, results, metrics, traceRendered,
                   procVars, builderVars>>

----------------------------------------------------------------------------
(* The processes outside experiment() *)

(* The workload runs until its timeout and exits.                          *)
stress_exits ==
    /\ stress = "running"
    /\ UNCHANGED notRunVars
    /\ stress' = "zombie"
    /\ UNCHANGED <<inputVars, pc, pending, raisedAt, dictVars, scx, signals,
                   waitTimedOut, lookupErrors, builderVars>>

(* The policy-under-test process exits, of its own or on a signal.         *)
scx_exits ==
    /\ scx = "running"
    /\ UNCHANGED notRunVars
    /\ scx' = "gone"
    /\ UNCHANGED <<inputVars, pc, pending, raisedAt, dictVars, signals,
                   waitTimedOut, lookupErrors, stress, builderVars>>

----------------------------------------------------------------------------
(* state.py 159-162: the sampling thread *)

(* while psutil.pid_exists(self.pid) and not self._stop_event.is_set()     *)
monitor_loop_test ==
    /\ thread = "check"
    /\ UNCHANGED notRunVars
    /\ IF pid_exists(stress) /\ ~stop_event
       THEN ticks < MaxTicks /\ thread' = "collect"
       ELSE thread' = "done"
    /\ UNCHANGED <<inputVars, pc, pending, raisedAt, dictVars, procVars,
                   buffer_size, raw_buffer, stop_event, ticks>>

(* collect_raw(): one snapshot appended to the window, or an exception of  *)
(* psutil that ends the thread.                                            *)
collect_raw ==
    /\ thread = "collect"
    /\ UNCHANGED notRunVars
    /\ \/ /\ ticks' = ticks + 1
          /\ raw_buffer' = deque_append(raw_buffer, buffer_size, ticks + 1)
          /\ thread' = "sleep"
       \/ /\ thread' = "done"
          /\ UNCHANGED <<ticks, raw_buffer>>
    /\ UNCHANGED <<inputVars, pc, pending, raisedAt, dictVars, procVars,
                   buffer_size, stop_event>>

(* time.sleep(self.interval)                                               *)
monitor_sleep ==
    /\ thread = "sleep"
    /\ UNCHANGED notRunVars
    /\ thread' = "check"
    /\ UNCHANGED <<inputVars, pc, pending, raisedAt, dictVars, procVars,
                   buffer_size, raw_buffer, stop_event, ticks>>

----------------------------------------------------------------------------
(* parse.py: values *)

(* Optional fields: None, or a value.                                      *)
None == << >>

Some(x) == <<x>>

(* Floats: a finite number of ticks, float('inf'), float('-inf') or nan.   *)
Fin(x) == <<"fin", x>>

PosInf == <<"inf", 1>>

NegInf == <<"inf", -1>>

NaN == <<"nan", 0>>

IsFin(a) == a[1] = "fin"

FLess(a, b) ==
    CASE a[1] = "nan" \/ b[1] = "nan" -> FALSE
      [] IsFin(a) /\ IsFin(b) -> a[2] < b[2]
      [] IsFin(a) -> b = PosInf
      [] IsFin(b) -> a = NegInf
      [] OTHER -> a = NegInf /\ b = PosInf

(* Python's min(a, b) and max(a, b): b unless a compares as needed.        *)
FMin(a, b) == IF FLess(b, a) THEN b ELSE a

FMax(a, b) == IF FLess(a, b) THEN b ELSE a

FSub(a, b) ==
    CASE a[1] = "nan" \/ b[1] = "nan" -> NaN
      [] IsFin(a) /\ IsFin(b) -> Fin(a[2] - b[2])
      [] IsFin(a) -> IF b = PosInf THEN NegInf ELSE PosInf
      [] IsFin(b) -> a
      [] OTHER -> IF a = b THEN NaN ELSE a

(* Quotients are kept exact, as <<numerator, denominator>>.                *)
Quot(n, d) == <<n, d>>

Zero == Quot(0, 1)

Pids == 1..MaxPid

Times == 0..MaxTime

NoPid == 0

(* A line of the trace.  match: LOG_PATTERN matches it.  marker: the event *)
(* name its details carry.  arg: the pid that child_pid=(\d+) (fork) or    *)
(* ==> name:(\d+) (switch) finds in the details, NoPid if the search finds *)
(* nothing.                                                                *)
NoMatchLine == [match |-> FALSE, pid |-> NoPid, timestamp |-> 0,
                marker |-> "none", arg |-> NoPid]

Lines ==
    {NoMatchLine}
    \cup [match : {TRUE}, pid : Pids, timestamp : Times,
          marker : {"sched_process_fork", "sched_switch"},
          arg : Pids \cup {NoPid}]
    \cup [match : {TRUE}, pid : Pids, timestamp : Times,
          marker : {"sched_process_exit", "none"}, arg : {NoPid}]

----------------------------------------------------------------------------
(* parse.py 44-89: the three branches of the line loop *)

NewWorker(ts) == [T_Arrival |-> Some(ts), T_First_CPU |-> None,
                  T_Completion |-> None, Total_CPU_Time |-> 0,
                  T_Last_Scheduled_In |-> None]

(* Lines 45-59 *)
ForkOverwrite(wd, child, ts) ==
    IF child # NoPid
    THEN [q \in DOMAIN wd \cup {child} |->
             IF q = child THEN NewWorker(ts) ELSE wd[q]]
    ELSE wd

fork_branch(wd, child, ts) ==
    IF child # NoPid /\ child \notin DOMAIN wd
    THEN wd @@ (child :> NewWorker(ts))
    ELSE wd

(* Lines 62-65 *)
ExitBranchLazy(wd, pid, ts) ==
    IF pid \in DOMAIN wd
    THEN [wd EXCEPT ![pid].T_Completion = Some(ts)]
    ELSE wd @@ (pid :> [NewWorker(ts) EXCEPT !.T_Completion = Some(ts)])

exit_branch(wd, pid, ts) ==
    IF pid \in DOMAIN wd
    THEN [wd EXCEPT ![pid].T_Completion = Some(ts)]
    ELSE wd

(* Lines 70-76: the slice of the pid the line is about is closed.          *)
switch_out(wd, pid, ts) ==
    IF pid \in DOMAIN wd /\ wd[pid].T_Last_Scheduled_In # None
    THEN [wd EXCEPT
            ![pid].Total_CPU_Time = @ + (ts - wd[pid].T_Last_Scheduled_In[1]),
            ![pid].T_Last_Scheduled_In = None]
    ELSE wd

(* Lines 79-89: the slice of next_pid is opened.                           *)
SwitchInLazy(wd, next, ts) ==
    IF next = NoPid THEN wd
    ELSE IF next \in DOMAIN wd
    THEN [wd EXCEPT
            ![next].T_First_CPU = IF @ = None THEN Some(ts) ELSE @,
            ![next].T_Last_Scheduled_In = Some(ts)]
    ELSE wd @@ (next :> [T_Arrival |-> Some(ts), T_First_CPU |-> Some(ts),
                         T_Completion |-> None, Total_CPU_Time |-> 0,
                         T_Last_Scheduled_In |-> Some(ts)])

SwitchInOverwrite(wd, next, ts) ==
    IF next # NoPid /\ next \in DOMAIN wd
    THEN [wd EXCEPT
            ![next].T_First_CPU = Some(ts),
            ![next].T_Last_Scheduled_In = Some(ts)]
    ELSE wd

switch_in(wd, next, ts) ==
    IF next # NoPid /\ next \in DOMAIN wd
    THEN [wd EXCEPT
            ![next].T_First_CPU = IF @ = None THEN Some(ts) ELSE @,
            ![next].T_Last_Scheduled_In = Some(ts)]
    ELSE wd

(* Lines 68-89 *)
switch_branch(wd, pid, ts, next) == switch_in(switch_out(wd, pid, ts), next, ts)

(* Lines 44-89: if / elif / elif on the marker in the details.             *)
process_line(wd, l) ==
    CASE l.marker = "sched_process_fork" -> fork_branch(wd, l.arg, l.timestamp)
      [] l.marker = "sched_process_exit" -> exit_branch(wd, l.pid, l.timestamp)
      [] l.marker = "sched_switch" ->
            switch_branch(wd, l.pid, l.timestamp, l.arg)
      [] OTHER -> wd

----------------------------------------------------------------------------
(* parse.py 95-154: the averages *)

(* Lines 104-107: the slice still open at the end of the trace is added;   *)
(* T_Last_Scheduled_In is left as it is.                                   *)
FinalSliceDropped(rec, end) == rec

final_slice(rec, end) ==
    IF rec.T_Last_Scheduled_In # None
    THEN [rec EXCEPT !.Total_CPU_Time =
                       @ + FSub(end, Fin(rec.T_Last_Scheduled_In[1]))[2]]
    ELSE rec

finalize(wd, end) == [p \in DOMAIN wd |-> final_slice(wd[p], end)]

RECURSIVE SumOver(_, _)
SumOver(f, S) ==
    IF S = {} THEN 0
    ELSE LET x == CHOOSE y \in S : TRUE
         IN  f[x] + SumOver(f, S \ {x})

(* Line 109 *)
Complete(wd) == {p \in DOMAIN wd : wd[p].T_Arrival # None
                                    /\ wd[p].T_Completion # None}

(* Line 116 *)
Responded(wd) == {p \in Complete(wd) : wd[p].T_First_CPU # None}

(* Lines 110-113, 124 *)
avg_tat(wd) ==
    LET tat == [p \in Complete(wd) |->
                    wd[p].T_Completion[1] - wd[p].T_Arrival[1]]
    IN  IF Cardinality(Complete(wd)) > 0
        THEN Quot(SumOver(tat, Complete(wd)), Cardinality(Complete(wd)))
        ELSE Zero

(* Lines 116-119, 125 *)
avg_rt(wd) ==
    LET rt == [p \in Responded(wd) |->
                    wd[p].T_First_CPU[1] - wd[p].T_Arrival[1]]
    IN  IF Cardinality(Responded(wd)) > 0
        THEN Quot(SumOver(rt, Responded(wd)), Cardinality(Responded(wd)))
        ELSE Zero

(* Lines 130-133: the pids whose Total_CPU_Time enters cpu_times.          *)
Completed(wd) == {p \in DOMAIN wd : wd[p].T_Completion # None}

(* Lines 138-146.  np.std / np.mean is carried as its square,              *)
(* (n * sum(x^2) - sum(x)^2) / sum(x)^2, which is exact.                   *)
cv_squared(wd) ==
    LET S == Completed(wd)
        n == Cardinality(S)
        x == [p \in S |-> wd[p].Total_CPU_Time]
        xx == [p \in S |-> wd[p].Total_CPU_Time * wd[p].Total_CPU_Time]
        s == SumOver(x, S)
    IN  Quot(n * SumOver(xx, S) - s * s, s * s)

(* Line 146: mean_time > 0 *)
mean_positive(wd) ==
    LET S == Completed(wd)
    IN  SumOver([p \in S |-> wd[p].Total_CPU_Time], S) > 0

EmptyDict == [k \in {} |-> Zero]

(* Lines 136, 148-154: the returned dict.                                  *)
summary(wd, start, end, cv) ==
    [k \in {"Average_TAT", "Average_RT", "CV_Fairness",
            "Total_Experiment_Duration"} |->
        CASE k = "Average_TAT" -> avg_tat(wd)
          [] k = "Average_RT" -> avg_rt(wd)
          [] k = "CV_Fairness" -> cv
          [] OTHER -> FSub(end, start)]

(* Lines 91-93: except FileNotFoundError: return {}                        *)
FileNotFoundPropagates == "raise"

on_FileNotFoundError == "return"

----------------------------------------------------------------------------
(* SpecParse: one call of parse_and_calculate_worker_metrics() *)

ParseInit ==
    /\ fileExists \in BOOLEAN
    /\ ppc = "open"
    /\ worker_data = [p \in {} |-> NewWorker(0)]
    /\ experiment_start_time = PosInf
    /\ experiment_end_time = NegInf
    /\ nlines = 0
    /\ line = NoMatchLine
    /\ result = EmptyDict
    /\ trace = << >>

(* Line 30: open(log_file_path) *)
open_log ==
    /\ ppc = "open"
    /\ UNCHANGED notParseVars
    /\ IF fileExists
       THEN ppc' = "loop"
       ELSE ppc' = IF on_FileNotFoundError = "return" THEN "returned"
                   ELSE "raised"
    /\ UNCHANGED <<fileExists, worker_data, experiment_start_time,
                   experiment_end_time, nlines, line, result, trace>>

(* Lines 31-89: one line of the file *)
read_line ==
    /\ ppc = "loop"
    /\ UNCHANGED notParseVars
    /\ nlines < MaxLines
    /\ \E l \in Lines :
          /\ line' = l
          /\ IF l.match
             THEN /\ experiment_start_time' =
                        FMin(experiment_start_time, Fin(l.timestamp))
                  /\ experiment_end_time' =
                        FMax(experiment_end_time, Fin(l.timestamp))
                  /\ worker_data' = process_line(worker_data, l)
             ELSE UNCHANGED <<experiment_start_time, experiment_end_time,
                              worker_data>>
    /\ nlines' = nlines + 1
    /\ UNCHANGED <<fileExists, ppc, result, trace>>

(* The file ends. *)
end_of_file ==
    /\ ppc = "loop"
    /\ UNCHANGED notParseVars
    /\ ppc' = "calculate"
    /\ UNCHANGED <<fileExists, worker_data, experiment_start_time,
                   experiment_end_time, nlines, line, result, trace>>

(* Lines 95-154.  With cpu_times non-empty and mean_time <= 0, cv_fairness *)
(* is the Python float 0.0 and cv_fairness.item() raises AttributeError.   *)
calculate ==
    /\ ppc = "calculate"
    /\ UNCHANGED notParseVars
    /\ worker_data' = finalize(worker_data, experiment_end_time)
    /\ IF Completed(worker_data') = {}
       THEN /\ result' = summary(worker_data', experiment_start_time,
                                 experiment_end_time, Zero)
            /\ ppc' = "returned"
       ELSE IF mean_positive(worker_data')
       THEN /\ result' = summary(worker_data', experiment_start_time,
                                 experiment_end_time, cv_squared(worker_data'))
            /\ ppc' = "returned"
       ELSE /\ ppc' = "raised"
            /\ UNCHANGED result
    /\ UNCHANGED <<fileExists, experiment_start_time, experiment_end_time,
                   nlines, line, trace>>

ParseNext ==
    \/ open_log
    \/ read_line
    \/ end_of_file
    \/ calculate

----------------------------------------------------------------------------
RunNext ==
    \/ popen_scx
    \/ body_raises
    \/ start_stressor
    \/ RLStateBuilder_init
    \/ start_monitoring
    \/ stress_wait
    \/ stop_monitoring_set
    \/ stop_monitoring_join
    \/ communicate
    \/ perf_script
    \/ remove_input
    \/ read_window
    \/ parse_and_row
    \/ finally_block
    \/ kill_sigterm
    \/ scx_wait
    \/ kill_sigkill
    \/ return_results
    \/ stress_exits
    \/ scx_exits
    \/ monitor_loop_test
    \/ collect_raw
    \/ monitor_sleep

(* The parser before its call, and experiment() before its call.           *)
ParseIdle ==
    /\ fileExists = TRUE
    /\ ppc = "open"
    /\ worker_data = [p \in {} |-> NewWorker(0)]
    /\ experiment_start_time = PosInf
    /\ experiment_end_time = NegInf
    /\ nlines = 0
    /\ line = NoMatchLine
    /\ result = EmptyDict
    /\ trace = << >>

RunIdle ==
    /\ RunInit
    /\ scheduler = "CFS"
    /\ duration = 0
    /\ interval = 0

(* The builder's reduction before its call.                                *)
EmptyFlat == [k \in {} |-> Zero]

StateIdle ==
    /\ samples = << >>
    /\ state = None
    /\ flat_state = EmptyFlat
    /\ bpc = "idle"

(* server.py 10, 46-58: the pool of experiment() calls.                    *)
Runs == 1..MaxRuns

(* experiment.py 21, 28: results and metric_monitor are locals of the      *)
(* call, so the objects a run works on are those its own call created.     *)
SharedFrame(r) == 1

call_frame(r) == r

PoolInit ==
    /\ rpc = [r \in Runs |-> "request"]
    /\ tpc = [r \in Runs |-> "none"]
    /\ raw_buffers = [r \in Runs |-> << >>]
    /\ stop_events = [r \in Runs |-> FALSE]
    /\ nticks = [r \in Runs |-> 0]
    /\ run_metrics = [r \in Runs |-> << >>]
    /\ run_results = [r \in Runs |-> {Key("unset")}]

(* collect_raw() before its call.                                          *)
CollectIdle ==
    /\ procs = << >>
    /\ nproc = 0
    /\ T_vcsw_total = 0
    /\ T_nvcsw_total = 0
    /\ cpc = "idle"
    /\ collected = << >>

(* state.py 40-47: the builder as constructed, its workload running.       *)
ThreadIds == 1..MaxCalls

MonInit ==
    /\ mpc = "idle"
    /\ ncalls = 0
    /\ mon_stop_event = FALSE
    /\ mon_thread = 0
    /\ threads = [t \in ThreadIds |-> "unborn"]
    /\ mon_buffer = << >>
    /\ mon_ticks = 0
    /\ mon_pid = TRUE

Init == RunInit /\ ParseIdle /\ StateIdle /\ PoolInit /\ CollectIdle /\ MonInit

Next == RunNext

Spec == Init /\ [][Next]_vars

InitParse ==
    ParseInit /\ RunIdle /\ StateIdle /\ PoolInit /\ CollectIdle /\ MonInit

NextParse == ParseNext

SpecParse == InitParse /\ [][NextParse]_vars

----------------------------------------------------------------------------
(* SpecTrace: one call of parse_and_calculate_worker_metrics() on a trace  *)
(* log whose lines are fixed before the call                               *)

(* The lines of fork, switch and exit events: LOG_PATTERN matches, the     *)
(* details hold one of the three markers, a fork line names its child.     *)
TraceLines ==
    {l \in Lines :
        /\ l.match
        /\ l.marker \in {"sched_process_fork", "sched_switch",
                         "sched_process_exit"}
        /\ l.marker = "sched_process_fork" => l.arg # NoPid}

(* The files of at most n such lines.                                      *)
Traces(n) == UNION {[1..k -> TraceLines] : k \in 0..n}

TraceInit ==
    /\ trace \in Traces(MaxLines)
    /\ fileExists = TRUE
    /\ ppc = "open"
    /\ worker_data = [p \in {} |-> NewWorker(0)]
    /\ experiment_start_time = PosInf
    /\ experiment_end_time = NegInf
    /\ nlines = 0
    /\ line = NoMatchLine
    /\ result = EmptyDict

(* Lines 31-89: the next line of the file *)
read_trace_line ==
    /\ ppc = "loop"
    /\ UNCHANGED notParseVars
    /\ nlines < Len(trace)
    /\ line' = trace[nlines + 1]
    /\ IF line'.match
       THEN /\ experiment_start_time' =
                  FMin(experiment_start_time, Fin(line'.timestamp))
            /\ experiment_end_time' =
                  FMax(experiment_end_time, Fin(line'.timestamp))
            /\ worker_data' = process_line(worker_data, line')
       ELSE UNCHANGED <<experiment_start_time, experiment_end_time,
                        worker_data>>
    /\ nlines' = nlines + 1
    /\ UNCHANGED <<fileExists, ppc, result, trace>>

(* Line 31: the iteration over the file is exhausted. *)
trace_ends ==
    /\ ppc = "loop"
    /\ UNCHANGED notParseVars
    /\ nlines = Len(trace)
    /\ ppc' = "calculate"
    /\ UNCHANGED <<fileExists, worker_data, experiment_start_time,
                   experiment_end_time, nlines, line, result, trace>>

NextTrace ==
    \/ open_log
    \/ read_trace_line
    \/ trace_ends
    \/ calculate

InitTrace ==
    TraceInit /\ RunIdle /\ StateIdle /\ PoolInit /\ CollectIdle /\ MonInit

SpecTrace == InitTrace /\ [][NextTrace]_vars

(* SpecOrdered: one call of the parser on a trace one line longer whose    *)
(* timestamps never go backward, as perf script writes them; the lines are *)
(* drawn as they are read.                                                 *)
read_ordered_line ==
    /\ ppc = "loop"
    /\ UNCHANGED notParseVars
    /\ nlines < MaxLines + 1
    /\ \E l \in TraceLines :
          /\ ~FLess(Fin(l.timestamp), experiment_end_time)
          /\ line' = l
          /\ experiment_start_time' =
                FMin(experiment_start_time, Fin(l.timestamp))
          /\ experiment_end_time' =
                FMax(experiment_end_time, Fin(l.timestamp))
          /\ worker_data' = process_line(worker_data, l)
    /\ nlines' = nlines + 1
    /\ UNCHANGED <<fileExists, ppc, result, trace>>

NextOrdered ==
    \/ open_log
    \/ read_ordered_line
    \/ end_of_file
    \/ calculate

InitOrdered ==
    /\ ParseIdle
    /\ RunIdle /\ StateIdle /\ PoolInit /\ CollectIdle /\ MonInit

SpecOrdered == InitOrdered /\ [][NextOrdered]_vars

----------------------------------------------------------------------------
(* state.py 110-151: build_state() and build_flat_state(), with values.    *)
(* Numbers are quotients <<n, d>>, so that a mean and a percentage are     *)
(* exact.                                                                  *)

Values == 0..MaxValue

(* The fields of Snapshot, experiment_id apart (state.py 12-37).           *)
SnapshotFields == avg_metrics \cup total_metrics \cup {"T_cpu_user_percent"}

(* A snapshot whose gauges all read g and whose counters all read c.       *)
Snapshot(g, c) ==
    [m \in SnapshotFields |-> IF m \in total_metrics THEN c ELSE g]

Snapshots == {Snapshot(g, c) : g \in Values, c \in Values}

(* The windows of at most n snapshots.                                     *)
Windows(n) == UNION {[1..k -> Snapshots] : k \in 0..n}

RECURSIVE SumSeq(_)
SumSeq(xs) == IF Len(xs) = 0 THEN 0 ELSE Head(xs) + SumSeq(Tail(xs))

(* Lines 123-124: sum(values) / len(values)                                *)
AvgOfEnds(smp, m) == Quot(smp[1][m] + smp[Len(smp)][m], 2)

avg(smp, m) == Quot(SumSeq([i \in 1..Len(smp) |-> smp[i][m]]), Len(smp))

(* Lines 125, 132: getattr(newest, m) - getattr(oldest, m)                 *)
DeltaFromZero(smp, m) == smp[Len(smp)][m]

delta(smp, m) == smp[Len(smp)][m] - smp[1][m]

(* Lines 126-127, 133-134                                                  *)
pct_change(smp, m) ==
    IF smp[1][m] # 0 THEN Quot(delta(smp, m) * 100, smp[1][m]) ELSE Zero

(* Lines 110-137; None when the window is empty.                           *)
BuildStateZeroDefault(smp) ==
    Some([m \in avg_metrics \cup total_metrics |->
            [delta |-> Zero, pct_change |-> Zero]])

build_state(smp) ==
    IF Len(smp) = 0 THEN None
    ELSE Some([m \in avg_metrics \cup total_metrics |->
                 IF m \in avg_metrics
                 THEN [avg |-> avg(smp, m),
                       delta |-> Quot(delta(smp, m), 1),
                       pct_change |-> pct_change(smp, m)]
                 ELSE [delta |-> Quot(delta(smp, m), 1),
                       pct_change |-> pct_change(smp, m)]])

(* Lines 145-151: flat_state[f"{m}_{k}"] = v                               *)
flatten(st) ==
    [key \in {mk \in (DOMAIN st) \X {"avg", "delta", "pct_change"} :
                mk[2] \in DOMAIN st[mk[1]]}
        |-> st[key[1]][key[2]]]

BuildInit ==
    /\ samples \in Windows(MaxTicks)
    /\ state = None
    /\ flat_state = EmptyFlat
    /\ bpc = "build_state"

(* Lines 141, 110-137: build_flat_state() calls build_state().             *)
build_state_call ==
    /\ bpc = "build_state"
    /\ UNCHANGED notStateVars
    /\ state' = build_state(samples)
    /\ bpc' = "flatten"
    /\ UNCHANGED <<samples, flat_state>>

(* Lines 142-151: {} for None, the flattened dict otherwise.               *)
build_flat_state_return ==
    /\ bpc = "flatten"
    /\ UNCHANGED notStateVars
    /\ flat_state' = IF state = None THEN EmptyFlat ELSE flatten(state[1])
    /\ bpc' = "returned"
    /\ UNCHANGED <<samples, state>>

NextBuild ==
    \/ build_state_call
    \/ build_flat_state_return

InitBuild ==
    BuildInit /\ RunIdle /\ ParseIdle /\ PoolInit /\ CollectIdle /\ MonInit

SpecBuild == InitBuild /\ [][NextBuild]_vars

----------------------------------------------------------------------------
(* SpecPool: the server's pool running experiment() for several requests.  *)
(* A snapshot is the pair <<run that took it, its serial number>>.         *)

Executing == {r \in Runs : rpc[r] \notin {"request", "returned"}}

(* server.py 46-58: run_in_executor hands the call to a free pool thread;  *)
(* experiment.py 21: results = {}.                                         *)
run_in_executor(r) ==
    /\ rpc[r] = "request"
    /\ UNCHANGED notPoolVars
    /\ Cardinality(Executing) < max_workers
    /\ run_results' = [run_results EXCEPT ![call_frame(r)] = {}]
    /\ rpc' = [rpc EXCEPT ![r] = "RLStateBuilder"]
    /\ UNCHANGED <<tpc, raw_buffers, stop_events, nticks, run_metrics>>

(* experiment.py 28-29, state.py 43-47, 155-157: the builder is            *)
(* constructed with an empty window and its thread is started.             *)
pool_start_monitoring(r) ==
    /\ rpc[r] = "RLStateBuilder"
    /\ UNCHANGED notPoolVars
    /\ raw_buffers' = [raw_buffers EXCEPT ![call_frame(r)] = << >>]
    /\ stop_events' = [stop_events EXCEPT ![call_frame(r)] = FALSE]
    /\ tpc' = [tpc EXCEPT ![r] = "running"]
    /\ rpc' = [rpc EXCEPT ![r] = "wait"]
    /\ UNCHANGED <<nticks, run_metrics, run_results>>

(* state.py 160-162, 108: one pass of the monitor loop.                    *)
pool_collect_raw(r) ==
    /\ tpc[r] = "running"
    /\ UNCHANGED notPoolVars
    /\ ~stop_events[call_frame(r)]
    /\ nticks[r] < MaxTicks
    /\ nticks' = [nticks EXCEPT ![r] = @ + 1]
    /\ raw_buffers' = [raw_buffers EXCEPT ![call_frame(r)] =
                          deque_append(@, MaxDuration, <<r, nticks[r] + 1>>)]
    /\ UNCHANGED <<rpc, tpc, stop_events, run_metrics, run_results>>

(* state.py 160: the loop test fails (stop event set, or workload gone).   *)
pool_monitor_exit(r) ==
    /\ tpc[r] = "running"
    /\ UNCHANGED notPoolVars
    /\ tpc' = [tpc EXCEPT ![r] = "done"]
    /\ UNCHANGED <<rpc, raw_buffers, stop_events, nticks, run_metrics,
                   run_results>>

(* experiment.py 32-33, state.py 165: the workload has ended and           *)
(* stop_monitoring() sets the stop event.                                  *)
pool_stop_monitoring(r) ==
    /\ rpc[r] = "wait"
    /\ UNCHANGED notPoolVars
    /\ stop_events' = [stop_events EXCEPT ![call_frame(r)] = TRUE]
    /\ rpc' = [rpc EXCEPT ![r] = "join"]
    /\ UNCHANGED <<tpc, raw_buffers, nticks, run_metrics, run_results>>

(* state.py 166-167, experiment.py 35-45: the join returns and the window  *)
(* is reduced.                                                             *)
pool_build_flat_state(r) ==
    /\ rpc[r] = "join"
    /\ UNCHANGED notPoolVars
    /\ join_returns(tpc[r])
    /\ run_metrics' = [run_metrics EXCEPT ![r] = raw_buffers[call_frame(r)]]
    /\ rpc' = [rpc EXCEPT ![r] = "parse"]
    /\ UNCHANGED <<tpc, raw_buffers, stop_events, nticks, run_results>>

(* experiment.py 47-83: the parser call and the return of results; the     *)
(* call raises TypeError (see parse_and_row) and results stays {}.         *)
pool_return(r) ==
    /\ rpc[r] = "parse"
    /\ UNCHANGED notPoolVars
    /\ IF parse_call_ok(ExperimentParseArgs)
       THEN run_results' = [run_results EXCEPT ![call_frame(r)] =
                              ConfigKeys \cup SummaryKeys]
       ELSE UNCHANGED run_results
    /\ rpc' = [rpc EXCEPT ![r] = "returned"]
    /\ UNCHANGED <<tpc, raw_buffers, stop_events, nticks, run_metrics>>

NextPool ==
    \/ \E r \in Runs : run_in_executor(r)
    \/ \E r \in Runs : pool_start_monitoring(r)
    \/ \E r \in Runs : pool_collect_raw(r)
    \/ \E r \in Runs : pool_monitor_exit(r)
    \/ \E r \in Runs : pool_stop_monitoring(r)
    \/ \E r \in Runs : pool_build_flat_state(r)
    \/ \E r \in Runs : pool_return(r)

InitPool ==
    PoolInit /\ RunIdle /\ ParseIdle /\ StateIdle /\ CollectIdle /\ MonInit

SpecPool == InitPool /\ [][NextPool]_vars

----------------------------------------------------------------------------
(* SpecCollect: the context-switch totals of one collect_raw() call        *)
(* (state.py 70-79, 104-108).                                              *)

(* A process of the iteration: its counters, and whether it has ended      *)
(* before the query of line 75 ("first"), between the queries of lines 75  *)
(* and 76 ("second"), or not at all ("never").                             *)
Processes ==
    [voluntary : Values, involuntary : Values,
     gone : {"never", "first", "second"}]

ProcessLists(n) == UNION {[1..k -> Processes] : k \in 0..n}

CollectInit ==
    /\ procs \in ProcessLists(MaxProcs)
    /\ nproc = 0
    /\ T_vcsw_total = 0
    /\ T_nvcsw_total = 0
    /\ cpc = "loop"
    /\ collected = << >>

(* Line 76: the counter added into T_nvcsw_total.                          *)
nvcsw_added(p) == p.voluntary

(* Lines 73-79: one process of the loop; NoSuchProcess ends the try body   *)
(* where it is raised and is ignored.                                      *)
query_process ==
    /\ cpc = "loop"
    /\ UNCHANGED notCollectVars
    /\ nproc < Len(procs)
    /\ LET p == procs[nproc + 1]
       IN  /\ T_vcsw_total' = IF p.gone = "first" THEN T_vcsw_total
                              ELSE T_vcsw_total + p.voluntary
           /\ T_nvcsw_total' = IF p.gone = "never"
                               THEN T_nvcsw_total + nvcsw_added(p)
                               ELSE T_nvcsw_total
    /\ nproc' = nproc + 1
    /\ UNCHANGED <<procs, cpc, collected>>

(* Line 73: the iteration is exhausted. *)
processes_done ==
    /\ cpc = "loop"
    /\ UNCHANGED notCollectVars
    /\ nproc = Len(procs)
    /\ cpc' = "snapshot"
    /\ UNCHANGED <<procs, nproc, T_vcsw_total, T_nvcsw_total, collected>>

(* Lines 81-108: the snapshot is built and appended.                       *)
append_snapshot ==
    /\ cpc = "snapshot"
    /\ UNCHANGED notCollectVars
    /\ collected' = Append(collected,
                           [T_nvcsw_total |-> T_nvcsw_total,
                            T_vcsw_total |-> T_vcsw_total])
    /\ cpc' = "done"
    /\ UNCHANGED <<procs, nproc, T_vcsw_total, T_nvcsw_total>>

NextCollect ==
    \/ query_process
    \/ processes_done
    \/ append_snapshot

InitCollect ==
    CollectInit /\ RunIdle /\ ParseIdle /\ StateIdle /\ PoolInit /\ MonInit

SpecCollect == InitCollect /\ [][NextCollect]_vars

----------------------------------------------------------------------------
(* SpecMonitor: one RLStateBuilder whose start_monitoring() and            *)
(* stop_monitoring() are called in any order by one caller                 *)
(* (state.py 154-167).                                                     *)

(* Line 160: the loop test.                                                *)
LoopIgnoresStop(exists, ev) == exists

loop_continues(exists, ev) == exists /\ ~ev

Alive == {t \in ThreadIds : threads[t] \in {"check", "collect", "sleep"}}

(* Lines 154-157: the event is cleared, a new Thread is bound to           *)
(* self._thread and started.                                               *)
mon_start_monitoring ==
    /\ mpc = "idle"
    /\ UNCHANGED notMonVars
    /\ ncalls < MaxCalls
    /\ ncalls' = ncalls + 1
    /\ mon_stop_event' = FALSE
    /\ LET t == CHOOSE u \in ThreadIds :
                   threads[u] = "unborn"
                   /\ \A v \in ThreadIds : threads[v] = "unborn" => u <= v
       IN  /\ mon_thread' = t
           /\ threads' = [threads EXCEPT ![t] = "check"]
    /\ UNCHANGED <<mpc, mon_buffer, mon_ticks, mon_pid>>

(* Line 165: self._stop_event.set()                                        *)
mon_stop_set ==
    /\ mpc = "idle"
    /\ UNCHANGED notMonVars
    /\ ncalls < MaxCalls
    /\ ncalls' = ncalls + 1
    /\ mon_stop_event' = TRUE
    /\ mpc' = "join"
    /\ UNCHANGED <<mon_thread, threads, mon_buffer, mon_ticks, mon_pid>>

(* Lines 166-167: if self._thread: self._thread.join()                     *)
mon_stop_join ==
    /\ mpc = "join"
    /\ UNCHANGED notMonVars
    /\ mon_thread # 0 => join_returns(threads[mon_thread])
    /\ mpc' = "idle"
    /\ UNCHANGED <<ncalls, mon_stop_event, mon_thread, threads, mon_buffer,
                   mon_ticks, mon_pid>>

(* Line 160: while psutil.pid_exists(self.pid) and not is_set()            *)
mon_loop_test(t) ==
    /\ threads[t] = "check"
    /\ UNCHANGED notMonVars
    /\ IF loop_continues(mon_pid, mon_stop_event)
       THEN /\ mon_ticks < MaxTicks
            /\ threads' = [threads EXCEPT ![t] = "collect"]
       ELSE threads' = [threads EXCEPT ![t] = "done"]
    /\ UNCHANGED <<mpc, ncalls, mon_stop_event, mon_thread, mon_buffer,
                   mon_ticks, mon_pid>>

(* Lines 161, 108: collect_raw() appends a snapshot.                       *)
mon_collect_raw(t) ==
    /\ threads[t] = "collect"
    /\ UNCHANGED notMonVars
    /\ mon_ticks' = mon_ticks + 1
    /\ mon_buffer' = deque_append(mon_buffer, MaxDuration,
                                  <<t, mon_ticks + 1>>)
    /\ threads' = [threads EXCEPT ![t] = "sleep"]
    /\ UNCHANGED <<mpc, ncalls, mon_stop_event, mon_thread, mon_pid>>

(* Line 162: time.sleep(self.interval)                                     *)
mon_sleep(t) ==
    /\ threads[t] = "sleep"
    /\ UNCHANGED notMonVars
    /\ threads' = [threads EXCEPT ![t] = "check"]
    /\ UNCHANGED <<mpc, ncalls, mon_stop_event, mon_thread, mon_buffer,
                   mon_ticks, mon_pid>>

(* The workload process ends.                                              *)
mon_pid_ends ==
    /\ mon_pid
    /\ UNCHANGED notMonVars
    /\ mon_pid' = FALSE
    /\ UNCHANGED <<mpc, ncalls, mon_stop_event, mon_thread, threads,
                   mon_buffer, mon_ticks>>

NextMonitor ==
    \/ mon_start_monitoring
    \/ mon_stop_set
    \/ mon_stop_join
    \/ \E t \in ThreadIds : mon_loop_test(t)
    \/ \E t \in ThreadIds : mon_collect_raw(t)
    \/ \E t \in ThreadIds : mon_sleep(t)
    \/ mon_pid_ends

InitMonitor ==
    MonInit /\ RunIdle /\ ParseIdle /\ StateIdle /\ PoolInit /\ CollectIdle

SpecMonitor == InitMonitor /\ [][NextMonitor]_vars

(* The scheduler runs every sampling thread that can take a step, and the  *)
(* caller's join returns once it can.                                      *)
SpecMonitorFair ==
    /\ SpecMonitor
    /\ \A t \in ThreadIds :
          WF_vars(mon_loop_test(t) \/ mon_collect_raw(t) \/ mon_sleep(t))
    /\ WF_vars(mon_stop_join)

----------------------------------------------------------------------------
(* Properties of experiment(), checked under Spec *)

Exited == pc \in {"returned", "raised"}

Unset == {Key("unset")}

\* C1: for a run whose workload was started and has exited and whose trace
\* was rendered, and in which no operating-system step failed, experiment()
\* returns a record holding the run identity, the request parameters, the
\* RunSummary fields and the window feature keys of build_flat_state.
C1_ReturnsFlatRecord ==
    (/\ pc = "returned"
     /\ stress = "reaped"
     /\ traceRendered
     /\ raisedAt \in {"none", "parse"})
    => (ConfigKeys \cup SummaryKeys \cup build_flat_state(raw_buffer))
          \subseteq retval

\* C2: the window is read only after the stop signal is set and the sampling
\* thread has ended, and the stop signal is set only after the workload has
\* exited: whenever the orchestrator is at or just past the read, the thread
\* is done and can append no more.
C2_ReadAfterJoin ==
    /\ pc \in {"build_flat_state", "parse"} =>
          thread = "done" /\ stop_event /\ stress = "reaped"
    /\ stop_event => stress = "reaped"
    /\ pc = "parse" => metrics = build_flat_state(raw_buffer)

C2_Witness ==
    /\ pc = "parse"
    /\ Len(raw_buffer) > 0
    /\ metrics = build_flat_state(raw_buffer)

\* C3: on every exit of experiment() with a policy-under-test process
\* started, whether the body completed or raised, SIGTERM has been sent to
\* that process first.
C3_SigtermOnEveryExit ==
    (Exited /\ scx # "none") =>
        Len(signals) >= 1 /\ signals[1] = "SIGTERM"

C3_Witness ==
    /\ pc = "returned"
    /\ scx # "none"
    /\ raisedAt = "start_stressor"
    /\ signals[1] = "SIGTERM"

\* C4: if the process has not exited within the bounded wait after SIGTERM,
\* SIGKILL is sent; if the process is gone at either signal, teardown ends
\* without raising and experiment() returns its results.
C4_Teardown ==
    /\ (waitTimedOut /\ pc \in {"return", "returned", "raised"}) =>
          signals = <<"SIGTERM", "SIGKILL">>
    /\ lookupErrors > 0 => pc \in {"return", "returned"}
    /\ (lookupErrors > 0 /\ Exited) => retval = results

C4_Witness ==
    /\ pc = "returned"
    /\ waitTimedOut
    /\ lookupErrors > 0
    /\ signals = <<"SIGTERM", "SIGKILL">>

\* C5: no failure of a step of the run body leaves experiment() as an
\* exception: an exception leaves it only from the start of the
\* policy-under-test, before the body, and after a body failure the call
\* returns its results dict.
C5_BodyFailureReturns ==
    /\ pc = "raised" => raisedAt = "popen_scx"
    /\ (Exited /\ raisedAt \in RaisingSteps \cup {"RLStateBuilder", "parse"})
          => pc = "returned" /\ retval = results /\ retval # Unset

C5_Witness ==
    /\ pc = "returned"
    /\ raisedAt = "perf_script"
    /\ retval = {}

----------------------------------------------------------------------------
(* Properties of parse_and_calculate_worker_metrics(), checked under       *)
(* SpecParse                                                               *)

\* C6: when the trace log does not exist the function raises nothing and
\* returns an empty dict.
C6_MissingFileEmptyResult ==
    (~fileExists /\ ppc # "open") =>
        /\ ppc = "returned"
        /\ DOMAIN result = {}
        /\ DOMAIN worker_data = {}

C6_Witness == ~fileExists /\ ppc = "returned" /\ DOMAIN result = {}

\* C7: for a trace file that exists and holds no line matching LOG_PATTERN,
\* the function raises nothing and returns a summary whose averages are 0.0
\* and whose Total_Experiment_Duration is 0.0.
C7_EmptyTraceZeroSummary ==
    (/\ fileExists
     /\ ppc \in {"returned", "raised"}
     /\ experiment_end_time = NegInf)
    => /\ ppc = "returned"
       /\ DOMAIN result # {}
       /\ result["Average_TAT"] = Zero
       /\ result["Average_RT"] = Zero
       /\ result["CV_Fairness"] = Zero
       /\ result["Total_Experiment_Duration"] = Fin(0)

(* A step of the line loop that reads a switch line whose next_pid is      *)
(* found and has no record.                                                *)
SwitchIntoUntracked ==
    /\ nlines' = nlines + 1
    /\ line'.match
    /\ line'.marker = "sched_switch"
    /\ line'.arg # NoPid
    /\ line'.arg \notin DOMAIN worker_data

\* C8 as stated: a switch line whose incoming pid has no record creates one
\* with arrival, first CPU and scheduled-in times equal to the timestamp.
C8_SwitchCreatesRecord ==
    [][SwitchIntoUntracked =>
          /\ line'.arg \in DOMAIN worker_data'
          /\ worker_data'[line'.arg].T_Arrival = Some(line'.timestamp)
          /\ worker_data'[line'.arg].T_First_CPU = Some(line'.timestamp)
          /\ worker_data'[line'.arg].T_Last_Scheduled_In
                = Some(line'.timestamp)]_vars

\* C8 as amended: a switch line whose incoming pid has no record creates no
\* record: the set of tracked pids is unchanged and the only effect is the
\* closing of the open slice of the line's own pid; a switch line whose
\* incoming pid has a record sets its T_Last_Scheduled_In to the timestamp
\* and its T_First_CPU if that was unset.
C8_SwitchCreatesNoRecord ==
    [][/\ SwitchIntoUntracked =>
             /\ DOMAIN worker_data' = DOMAIN worker_data
             /\ \A p \in DOMAIN worker_data \ {line'.pid} :
                   worker_data'[p] = worker_data[p]
       /\ (/\ nlines' = nlines + 1
           /\ line'.match
           /\ line'.marker = "sched_switch"
           /\ line'.arg \in DOMAIN worker_data) =>
             /\ worker_data'[line'.arg].T_Last_Scheduled_In
                   = Some(line'.timestamp)
             /\ worker_data'[line'.arg].T_First_CPU =
                   IF worker_data[line'.arg].T_First_CPU = None
                   THEN Some(line'.timestamp)
                   ELSE worker_data[line'.arg].T_First_CPU]_vars

(* A switch line has been read whose incoming pid has no record, with a    *)
(* worker tracked beside it.                                               *)
C8_Witness ==
    /\ ppc = "loop"
    /\ line.match
    /\ line.marker = "sched_switch"
    /\ line.arg # NoPid
    /\ line.arg \notin DOMAIN worker_data
    /\ DOMAIN worker_data # {}

\* C9: once T_Completion of a record is set by an exit line, a later exit
\* line for the same pid leaves it unchanged (first exit wins).
C9_FirstExitWins ==
    [][\A p \in DOMAIN worker_data :
          worker_data[p].T_Completion # None =>
             worker_data'[p].T_Completion = worker_data[p].T_Completion]_vars

\* C10: for any sequence of lines, timestamps going back included, the
\* Total_CPU_Time of a record never decreases from one step to the next and
\* is never negative.
C10_TotalCpuTimeMonotone ==
    [][\A p \in DOMAIN worker_data :
          /\ worker_data'[p].Total_CPU_Time >= worker_data[p].Total_CPU_Time
          /\ worker_data'[p].Total_CPU_Time >= 0]_vars

(* A step of the line loop that reads a switch line whose next_pid is p.   *)
SwitchInto(p) ==
    /\ nlines' = nlines + 1
    /\ line'.match
    /\ line'.marker = "sched_switch"
    /\ line'.arg = p

\* C11: once T_First_CPU of a record is set no step changes it, and a
\* switch line that schedules the pid in again (a line about another pid)
\* changes nothing of the record but T_Last_Scheduled_In, which becomes the
\* line's timestamp.
C11_FirstCpuTimeStable ==
    [][\A p \in DOMAIN worker_data :
          worker_data[p].T_First_CPU # None =>
             /\ worker_data'[p].T_First_CPU = worker_data[p].T_First_CPU
             /\ (SwitchInto(p) /\ line'.pid # p) =>
                   worker_data'[p] =
                      [worker_data[p] EXCEPT
                          !.T_Last_Scheduled_In = Some(line'.timestamp)]]_vars

(* A pid whose first CPU time was set earlier has been scheduled in again  *)
(* at another timestamp.                                                   *)
C11_Witness ==
    /\ ppc = "loop"
    /\ line.match
    /\ line.marker = "sched_switch"
    /\ line.arg \in DOMAIN worker_data
    /\ worker_data[line.arg].T_First_CPU # None
    /\ worker_data[line.arg].T_First_CPU # Some(line.timestamp)
    /\ worker_data[line.arg].T_Last_Scheduled_In = Some(line.timestamp)

\* C12: applying the final slice loop twice with the same end time to the
\* records the line loop produced yields the same records as applying it
\* once.
C12_FinalizeIdempotent ==
    ppc = "calculate" =>
       finalize(finalize(worker_data, experiment_end_time),
                experiment_end_time)
          = finalize(worker_data, experiment_end_time)

----------------------------------------------------------------------------
(* The scheduled intervals of a pid, read off the trace itself *)

RECURSIVE SumIdx(_, _)
SumIdx(f, S) ==
    IF S = {} THEN 0
    ELSE LET i == CHOOSE j \in S : TRUE
         IN  f[i] + SumIdx(f, S \ {i})

MinOf(S) == CHOOSE x \in S : \A y \in S : x <= y
MaxOf(S) == CHOOSE x \in S : \A y \in S : y <= x

ForkIdx(tr, p) ==
    {i \in 1..Len(tr) : tr[i].marker = "sched_process_fork" /\ tr[i].arg = p}
InIdx(tr, p) ==
    {i \in 1..Len(tr) : tr[i].marker = "sched_switch" /\ tr[i].arg = p}
OutIdx(tr, p) ==
    {i \in 1..Len(tr) : tr[i].marker = "sched_switch" /\ tr[i].pid = p}

ArrivalOf(tr, p) == tr[MinOf(ForkIdx(tr, p))].timestamp
RunEnd(tr) == MaxOf({tr[i].timestamp : i \in 1..Len(tr)})

(* The interval opened by the switch-in at line i ends at the next         *)
(* switch-out of the pid, or at the run end if there is none.              *)
IntervalEnd(tr, p, i) ==
    LET later == {j \in OutIdx(tr, p) : j > i}
    IN  IF later # {} THEN tr[MinOf(later)].timestamp ELSE RunEnd(tr)

(* Its length once clipped to [arrival_time, run_end_time].                *)
ClippedLength(tr, p, i) ==
    LET lo == IF tr[i].timestamp < ArrivalOf(tr, p)
              THEN ArrivalOf(tr, p) ELSE tr[i].timestamp
        hi == IF IntervalEnd(tr, p, i) > RunEnd(tr)
              THEN RunEnd(tr) ELSE IntervalEnd(tr, p, i)
    IN  IF hi > lo THEN hi - lo ELSE 0

ScheduledTime(tr, p) ==
    SumIdx([i \in InIdx(tr, p) |-> ClippedLength(tr, p, i)], InIdx(tr, p))

(* The events of p come in the order a scheduler emits them: every         *)
(* switch-in follows the fork, and between two switch-ins there is a       *)
(* switch-out (on the line of the second one at the latest).               *)
WellOrdered(tr, p) ==
    /\ ForkIdx(tr, p) # {}
    /\ \A i \in InIdx(tr, p) : MinOf(ForkIdx(tr, p)) < i
    /\ \A i, k \in InIdx(tr, p) :
          i < k => \E j \in OutIdx(tr, p) : i < j /\ j <= k

\* C13: after the final slice loop, Total_CPU_Time of every tracked pid
\* whose events are in scheduler order equals the sum of the lengths of
\* its scheduled intervals (switch-in to next switch-out, or to the run
\* end), each clipped to [arrival time, run end].
C13_Conservation ==
    ppc \in {"returned", "raised"} =>
       \A p \in DOMAIN worker_data :
          WellOrdered(trace, p) =>
             worker_data[p].Total_CPU_Time = ScheduledTime(trace, p)

----------------------------------------------------------------------------
(* Means, stated without the division: q = <<n, d>> is the mean of f over  *)
(* S, and 0 if S is empty.                                                 *)
MeanIs(q, f, S) ==
    IF S = {} THEN q[1] = 0
    ELSE q[1] * Cardinality(S) = q[2] * SumIdx(f, S)

TatOf(wd) ==
    [p \in Complete(wd) |-> wd[p].T_Completion[1] - wd[p].T_Arrival[1]]

RtOf(wd) ==
    [p \in Responded(wd) |-> wd[p].T_First_CPU[1] - wd[p].T_Arrival[1]]

ExitIdx(tr, p) ==
    {i \in 1..Len(tr) : tr[i].marker = "sched_process_exit" /\ tr[i].pid = p}

(* The trace forks p, holds one exit line of p after the fork and no       *)
(* switch line that schedules p in.                                        *)
ForkExitNoSwitch(tr, p) ==
    /\ ForkIdx(tr, p) # {}
    /\ InIdx(tr, p) = {}
    /\ Cardinality(ExitIdx(tr, p)) = 1
    /\ \A e \in ExitIdx(tr, p) : MinOf(ForkIdx(tr, p)) < e

\* C14: when the trace forks p at time a, holds an exit line of p at time
\* c and never schedules p in, the call returns; p's record is complete
\* with T_Completion - T_Arrival = c - a, Total_CPU_Time 0 and no
\* T_First_CPU; Average_TAT is the mean over the complete records, p among
\* them, and Average_RT is the mean over the records with a first CPU
\* time, p not among them.
C14_ForkExitNoSwitch ==
    ppc \in {"returned", "raised"} =>
       \A p \in Pids :
          ForkExitNoSwitch(trace, p) =>
             /\ p \in Complete(worker_data)
             /\ \A e \in ExitIdx(trace, p) :
                   TatOf(worker_data)[p] =
                      trace[e].timestamp - ArrivalOf(trace, p)
             /\ worker_data[p].Total_CPU_Time = 0
             /\ worker_data[p].T_First_CPU = None
             /\ ppc = "returned"
             /\ MeanIs(result["Average_TAT"], TatOf(worker_data),
                       Complete(worker_data))
             /\ p \notin Responded(worker_data)
             /\ MeanIs(result["Average_RT"], RtOf(worker_data),
                       Responded(worker_data))

----------------------------------------------------------------------------
Restrict(wd, S) == [p \in S |-> wd[p]]

Censored(wd) == {p \in DOMAIN wd : wd[p].T_Completion = None}

(* A step of the line loop that reads a line LOG_PATTERN matches.          *)
ReadsMatch == nlines' = nlines + 1 /\ line'.match

(* The step from the end of the line loop to the return or the raise.      *)
Calculates == ppc = "calculate" /\ ppc' # "calculate"

\* C15: experiment_end_time is the maximum timestamp read so far (it never
\* decreases, it is at least the timestamp of the line read, and it is
\* either its old value or that timestamp).  In the calculation a record
\* with no T_Completion has Total_CPU_Time increased by
\* experiment_end_time - T_Last_Scheduled_In if it is scheduled in and left
\* alone otherwise, and the returned summary is the one the records with a
\* T_Completion give on their own: the means of TAT and RT over them and
\* the fairness value of their CPU times.
C15_CensoredRecords ==
    [][/\ ReadsMatch =>
             /\ ~FLess(experiment_end_time', experiment_end_time)
             /\ ~FLess(experiment_end_time', Fin(line'.timestamp))
             /\ experiment_end_time' \in
                   {experiment_end_time, Fin(line'.timestamp)}
       /\ Calculates =>
             /\ \A p \in Censored(worker_data) :
                   IF worker_data[p].T_Last_Scheduled_In # None
                   THEN /\ IsFin(experiment_end_time)
                        /\ worker_data'[p].Total_CPU_Time =
                              worker_data[p].Total_CPU_Time
                              + (experiment_end_time[2]
                                 - worker_data[p].T_Last_Scheduled_In[1])
                   ELSE worker_data'[p].Total_CPU_Time =
                           worker_data[p].Total_CPU_Time
             /\ ppc' = "returned" =>
                   LET kept == Restrict(worker_data',
                                  DOMAIN worker_data' \ Censored(worker_data'))
                   IN  /\ MeanIs(result'["Average_TAT"], TatOf(kept),
                                 DOMAIN kept)
                       /\ MeanIs(result'["Average_RT"], RtOf(kept),
                                 Responded(kept))
                       /\ result'["CV_Fairness"] =
                             IF DOMAIN kept = {} THEN Zero
                             ELSE cv_squared(kept)]_vars

(* The call has returned with a record that never completed, whose         *)
(* response time would be positive and whose open slice has been added.    *)
C15_Witness ==
    /\ fileExists
    /\ ppc = "returned"
    /\ \E p \in Censored(worker_data) :
          /\ worker_data[p].T_Last_Scheduled_In # None
          /\ worker_data[p].T_First_CPU # None
          /\ worker_data[p].T_First_CPU[1] > worker_data[p].T_Arrival[1]
          /\ worker_data[p].Total_CPU_Time > 0
          /\ worker_data[p].Total_CPU_Time =
                experiment_end_time[2] - worker_data[p].T_Last_Scheduled_In[1]
          /\ result["Average_RT"] = Zero

----------------------------------------------------------------------------
(* The call on an existing file has ended, by a return or by a raise.      *)
Ended == fileExists /\ ppc \in {"returned", "raised"}

CpuTimeOf(wd) == [p \in Completed(wd) |-> wd[p].Total_CPU_Time]

AllIdentical(f, S) == \A p, q \in S : f[p] = f[q]

\* C16: the call on an existing file returns a summary whose CV_Fairness is
\* 0 when no record has a T_Completion, when the CPU times of the records
\* with a T_Completion sum to 0, or when they are all identical, and is
\* strictly positive when their sum is positive and two of them differ.
C16_CvFairness ==
    Ended =>
       LET S == Completed(worker_data)
           x == CpuTimeOf(worker_data)
       IN  /\ ppc = "returned"
           /\ (S = {} \/ SumIdx(x, S) = 0 \/ AllIdentical(x, S)) =>
                 result["CV_Fairness"][1] = 0
           /\ (SumIdx(x, S) > 0 /\ ~AllIdentical(x, S)) =>
                 result["CV_Fairness"][1] * result["CV_Fairness"][2] > 0

\* C17: the call on an existing file returns a summary whose Average_TAT is
\* the arithmetic mean of T_Completion - T_Arrival over the records that
\* have both, and 0 when there is no such record.
C17_AverageTat ==
    Ended =>
       /\ ppc = "returned"
       /\ MeanIs(result["Average_TAT"], TatOf(worker_data),
                 Complete(worker_data))

(* The complete records that were never scheduled in.                      *)
NeverRan(wd) == Complete(wd) \ Responded(wd)

\* C18: the call on an existing file returns a summary whose Average_RT is
\* the mean of T_First_CPU - T_Arrival over the complete records with a
\* T_First_CPU; a complete record without one is outside that mean and
\* inside the set of Average_TAT and of the CPU times of CV_Fairness.
C18_AverageRt ==
    Ended =>
       /\ ppc = "returned"
       /\ MeanIs(result["Average_RT"], RtOf(worker_data),
                 Complete(worker_data) \ NeverRan(worker_data))
       /\ NeverRan(worker_data) # {} =>
             /\ MeanIs(result["Average_TAT"], TatOf(worker_data),
                       Complete(worker_data)
                          \cup NeverRan(worker_data))
             /\ LET S == Completed(worker_data) \cup NeverRan(worker_data)
                    x == CpuTimeOf(worker_data)
                IN  result["CV_Fairness"][1] * SumIdx(x, S) * SumIdx(x, S) =
                       result["CV_Fairness"][2]
                       * (Cardinality(S)
                             * SumIdx([p \in S |-> x[p] * x[p]], S)
                          - SumIdx(x, S) * SumIdx(x, S))

RunStart(tr) == MinOf({tr[i].timestamp : i \in 1..Len(tr)})

\* C19: the call on a trace of at least one line returns a summary whose
\* Total_Experiment_Duration is the largest minus the smallest timestamp
\* of the lines of the trace, whatever the lines do to the records.
C19_TotalDuration ==
    (Ended /\ Len(trace) > 0) =>
       /\ ppc = "returned"
       /\ result["Total_Experiment_Duration"] =
             Fin(RunEnd(trace) - RunStart(trace))

----------------------------------------------------------------------------
\* C20: once the builder is constructed, buffer_size is the floor of
\* duration / interval; raw_buffer never holds more than buffer_size
\* snapshots; it holds all the snapshots taken while they are at most
\* buffer_size, and after that exactly the last buffer_size of them, in
\* the order they were taken.
C20_SlidingWindow ==
    buffer_size >= 0 =>
       /\ buffer_size * interval <= duration
       /\ duration < (buffer_size + 1) * interval
       /\ Len(raw_buffer) <= buffer_size
       /\ Len(raw_buffer) = IF ticks < buffer_size THEN ticks ELSE buffer_size
       /\ \A i \in 1..Len(raw_buffer) :
             raw_buffer[i] = ticks - Len(raw_buffer) + i

(* More snapshots were taken than a window of two or more holds.           *)
C20_Witness ==
    /\ buffer_size >= 2
    /\ ticks > buffer_size
    /\ Len(raw_buffer) = buffer_size
    /\ raw_buffer[1] = ticks - buffer_size + 1

----------------------------------------------------------------------------
(* q = <<n, d>> is the quotient a / b.                                     *)
QuotIs(q, a, b) == q[2] # 0 /\ q[1] * b = q[2] * a

Reported == avg_metrics \cup total_metrics

\* C21: on a window of exactly one snapshot build_state reports delta 0 and
\* pct_change 0 for every averaged and every cumulative metric, and
\* build_flat_state carries the same two zeros under the flattened keys.
C21_OneSnapshotWindow ==
    Len(samples) = 1 =>
       /\ bpc \in {"flatten", "returned"} =>
             /\ state # None
             /\ \A m \in Reported :
                   /\ state[1][m].delta[1] = 0
                   /\ state[1][m].pct_change[1] = 0
       /\ bpc = "returned" =>
             \A m \in Reported :
                /\ flat_state[<<m, "delta">>][1] = 0
                /\ flat_state[<<m, "pct_change">>][1] = 0

(* The reduction of a one-snapshot window whose values are not 0.          *)
C21_Witness ==
    /\ bpc = "returned"
    /\ Len(samples) = 1
    /\ \A m \in Reported : samples[1][m] # 0
    /\ <<"T_mem_used", "delta">> \in DOMAIN flat_state

(* What the claim gives for delta and pct_change of metric m, read off the *)
(* window; e is the reported entry.                                        *)
DeltaAndPctAsClaimed(e, smp, m) ==
    LET newest == smp[Len(smp)][m]
        oldest == smp[1][m]
    IN  /\ QuotIs(e.delta, newest - oldest, 1)
        /\ IF oldest = 0 THEN e.pct_change[1] = 0
           ELSE QuotIs(e.pct_change, (newest - oldest) * 100, oldest)

\* C22: on a non-empty window build_state reports every averaged metric
\* with avg, delta and pct_change and every cumulative metric with delta
\* and pct_change only; avg is the mean over all snapshots of the window,
\* delta is newest - oldest and pct_change is delta / oldest * 100, or 0
\* when oldest is 0.  build_flat_state carries the same values under the
\* keys m_k.
C22_NonEmptyWindow ==
    (Len(samples) > 0 /\ bpc \in {"flatten", "returned"}) =>
       /\ state # None
       /\ DOMAIN state[1] = Reported
       /\ \A m \in avg_metrics :
             /\ DOMAIN state[1][m] = {"avg", "delta", "pct_change"}
             /\ QuotIs(state[1][m].avg,
                       SumIdx([i \in 1..Len(samples) |-> samples[i][m]],
                              1..Len(samples)),
                       Len(samples))
             /\ DeltaAndPctAsClaimed(state[1][m], samples, m)
       /\ \A m \in total_metrics :
             /\ DOMAIN state[1][m] = {"delta", "pct_change"}
             /\ DeltaAndPctAsClaimed(state[1][m], samples, m)
       /\ bpc = "returned" =>
             /\ DOMAIN flat_state = build_flat_state(samples)
             /\ \A key \in DOMAIN flat_state :
                   flat_state[key] = state[1][key[1]][key[2]]

(* A window of three snapshots whose mean is not the mean of its ends,     *)
(* with a gauge that fell from a non-zero value and a counter that rose    *)
(* from zero.                                                              *)
C22_Witness ==
    /\ bpc = "returned"
    /\ Len(samples) = 3
    /\ samples[1]["T_mem_used"] = 1
    /\ samples[2]["T_mem_used"] = 0
    /\ samples[3]["T_mem_used"] = 0
    /\ samples[1]["T_io_read_total"] = 0
    /\ samples[3]["T_io_read_total"] = 1
    /\ flat_state[<<"T_mem_used", "pct_change">>] = Quot(-100, 1)
    /\ flat_state[<<"T_io_read_total", "pct_change">>] = Zero

\* C23: on an empty window build_state returns None and build_flat_state
\* returns the empty dict; the call ends by a return.
C23_EmptyWindow ==
    Len(samples) = 0 =>
       /\ bpc \in {"flatten", "returned"} => state = None
       /\ bpc = "returned" => DOMAIN flat_state = {}
       /\ bpc \in {"idle", "build_state", "flatten", "returned"}

(* The reduction of an empty window has returned.                          *)
C23_Witness ==
    /\ bpc = "returned"
    /\ Len(samples) = 0
    /\ state = None
    /\ flat_state = EmptyFlat

----------------------------------------------------------------------------
(* The step is one of run r: its call or its sampling thread moves.        *)
StepOf(r) ==
    \/ rpc'[r] # rpc[r]
    \/ tpc'[r] # tpc[r]
    \/ nticks'[r] # nticks[r]

\* C24: with several runs in the pool, the window and the results dict
\* made by a run's call change only in steps of that run, every snapshot
\* in a run's window was taken by that run's thread, and what a run reads
\* when it reduces the window are snapshots of its own thread.
C24_RunsShareNothing ==
    [][/\ \A r \in Runs :
             (\/ raw_buffers'[r] # raw_buffers[r]
              \/ run_results'[r] # run_results[r]
              \/ run_metrics'[r] # run_metrics[r]) => StepOf(r)
       /\ \A r \in Runs :
             /\ \A i \in 1..Len(raw_buffers'[r]) : raw_buffers'[r][i][1] = r
             /\ \A i \in 1..Len(run_metrics'[r]) : run_metrics'[r][i][1] = r]_vars

(* Two runs execute at once, each with snapshots in its window, and one    *)
(* of them has reduced its window.                                         *)
C24_Witness ==
    \E r1, r2 \in Runs :
       /\ r1 # r2
       /\ rpc[r1] = "parse"
       /\ Len(run_metrics[r1]) > 0
       /\ rpc[r2] = "wait"
       /\ tpc[r2] = "running"
       /\ Len(raw_buffers[r2]) > 0

----------------------------------------------------------------------------
(* A step of the line loop, and the kinds of line the claim names.         *)
ReadsLine == ppc = "loop" /\ nlines' = nlines + 1

Unmarked(l) == l.match /\ l.marker = "none"

ExitOfUntracked(l, wd) ==
    l.match /\ l.marker = "sched_process_exit" /\ l.pid \notin DOMAIN wd

ForkWithoutChild(l) ==
    l.match /\ l.marker = "sched_process_fork" /\ l.arg = NoPid

\* C25: reading a line LOG_PATTERN does not match changes no worker record
\* and neither experiment_start_time nor experiment_end_time; reading a
\* matching line with none of the three markers, an exit line of a pid
\* with no record, or a fork line without child_pid changes no worker
\* record; after each of them the line loop goes on.
C25_SkippedLines ==
    [][ReadsLine =>
          /\ ~line'.match =>
                /\ worker_data' = worker_data
                /\ experiment_start_time' = experiment_start_time
                /\ experiment_end_time' = experiment_end_time
                /\ ppc' = "loop"
          /\ (\/ Unmarked(line')
              \/ ExitOfUntracked(line', worker_data)
              \/ ForkWithoutChild(line')) =>
                /\ worker_data' = worker_data
                /\ ppc' = "loop"]_vars

(* With a record present, the line read last is an exit line of a pid that *)
(* has none, and the loop goes on.                                         *)
C25_Witness ==
    /\ ppc = "loop"
    /\ nlines = 2
    /\ DOMAIN worker_data # {}
    /\ ExitOfUntracked(line, worker_data)

----------------------------------------------------------------------------
(* The processes that were there for both queries of the tick.             *)
Sampled == {i \in 1..Len(procs) : procs[i].gone = "never"}

\* C26: when no process ends between the two queries, the snapshot of the
\* tick is appended with T_nvcsw_total the sum of the involuntary counts
\* and T_vcsw_total the sum of the voluntary counts of the processes that
\* were there; a process that had ended contributes to neither.
C26_ContextSwitchTotals ==
    (cpc = "done" /\ \A i \in 1..Len(procs) : procs[i].gone # "second") =>
       /\ Len(collected) = 1
       /\ collected[1].T_vcsw_total =
             SumIdx([i \in Sampled |-> procs[i].voluntary], Sampled)
       /\ collected[1].T_nvcsw_total =
             SumIdx([i \in Sampled |-> procs[i].involuntary], Sampled)

----------------------------------------------------------------------------
(* A step of stop_monitoring(): the set, the return of the join, or a      *)
(* raise out of the join.                                                  *)
StopMonitoringStep == pc \in {"stop_set", "stop_join"} /\ pc' # pc

(* stop_monitoring() has returned.                                         *)
StopReturned == stop_event /\ pc # "stop_join" /\ raisedAt # "stop_join"

(* The sampling thread appends a snapshot.                                 *)
Appends == ticks' # ticks \/ raw_buffer' # raw_buffer

\* C27: no step of stop_monitoring changes the window; once
\* stop_monitoring has returned the window never changes; and after the
\* stop event is set (it stays set) the thread appends only the tick it
\* was collecting at that moment: an append comes from the collecting
\* state only, and with the event set the thread never enters that state
\* again.
C27_StopKeepsWindow ==
    [][/\ StopMonitoringStep => raw_buffer' = raw_buffer
       /\ StopReturned => ~Appends
       /\ stop_event => stop_event'
       /\ (stop_event /\ Appends) => thread = "collect"
       /\ (stop_event /\ thread # "collect") => thread' # "collect"]_vars

(* The stop event is set while a tick is in flight and the window already  *)
(* holds a snapshot.                                                       *)
C27_Witness ==
    /\ pc = "stop_join"
    /\ stop_event
    /\ thread = "collect"
    /\ Len(raw_buffer) > 0

----------------------------------------------------------------------------
\* C28: with the sampling threads scheduled fairly, a stop_monitoring call
\* that has set the stop event always returns (the thread it joins leaves
\* its loop); and when self._thread is None the call can return at once:
\* the return is enabled as soon as the event is set.
C28_StopTerminates ==
    /\ (mpc = "join") ~> (mpc = "idle")
    /\ [](mpc = "join" /\ mon_thread = 0 => ENABLED mon_stop_join)

(* stop_monitoring has returned after joining a thread that took          *)
(* snapshots.                                                              *)
C28_Witness ==
    /\ mpc = "idle"
    /\ mon_stop_event
    /\ mon_thread # 0
    /\ threads[mon_thread] = "done"
    /\ \E i \in 1..Len(mon_buffer) : mon_buffer[i][1] = mon_thread

\* C30: whatever calls of start_monitoring and stop_monitoring were made,
\* at most one sampling thread is alive, and only that one appends.
C30_SingleWriter == Cardinality(Alive) <= 1

----------------------------------------------------------------------------
\* C29: after the final slice loop every complete record has
\* Total_CPU_Time <= T_Completion - T_Arrival.
C29_NoCpuTimeAfterCompletion ==
    ppc \in {"returned", "raised"} =>
       \A p \in Complete(worker_data) :
          worker_data[p].Total_CPU_Time
             <= worker_data[p].T_Completion[1] - worker_data[p].T_Arrival[1]

----------------------------------------------------------------------------
(* A fork line naming a child pid that has a record already.               *)
ForkOfTracked(l, wd) ==
    l.match /\ l.marker = "sched_process_fork" /\ l.arg \in DOMAIN wd

\* C31: a record is created with T_Arrival the timestamp of the line that
\* creates it and the other fields unset or zero; no later step removes the
\* record or changes its T_Arrival; and reading a fork line whose child_pid
\* has a record already leaves every field of that record as it was.
C31_ArrivalTimeStable ==
    [][/\ \A p \in DOMAIN worker_data :
             /\ p \in DOMAIN worker_data'
             /\ worker_data'[p].T_Arrival = worker_data[p].T_Arrival
             /\ (ReadsLine /\ ForkOfTracked(line', worker_data)
                    /\ line'.arg = p) =>
                   worker_data'[p] = worker_data[p]
       /\ \A p \in DOMAIN worker_data' \ DOMAIN worker_data :
             /\ ReadsLine
             /\ worker_data'[p] = NewWorker(line'.timestamp)]_vars

(* The line read last is a fork line naming a pid whose record was created *)
(* by an earlier line with another timestamp.                              *)
C31_Witness ==
    /\ ppc = "loop"
    /\ nlines >= 2
    /\ ForkOfTracked(line, worker_data)
    /\ worker_data[line.arg].T_Arrival # Some(line.timestamp)

====
